---------------------------- MODULE Spec2Model ----------------------------
(***************************************************************************)
(* Model of src/app.py, the breast-cancer risk assessment page.            *)
(*                                                                         *)
(* The script is executed top to bottom once per script run (a page open,  *)
(* a widget change or a button click starts a run).  A run loads the       *)
(* artifact through the memoizing load_model_and_data, unpacks it into the *)
(* module globals, calls main(), and on the risk-assessment page builds    *)
(* input_data from the twenty number inputs and, when the button was       *)
(* clicked, scales, predicts, categorizes and renders.                     *)
(*                                                                         *)
(* Numbers.  Python floats are modelled in fixed point:                    *)
(*   - measurements, scaler statistics and scaled values in thousandths    *)
(*     (Milli), the finest step of the number inputs;                      *)
(*   - probabilities in units of 1e-7 (ProbOne is 1.0), fine enough for    *)
(*     0.2999999.                                                          *)
(* The pickled classifier and scaler are not part of the repository: the   *)
(* scaler is the per-feature standardization (x - mean_i) / scale_i, the   *)
(* classifier a linear score with a clipped-linear link, both deterministic*)
(* functions of their fitted parameters.                                   *)
(***************************************************************************)
EXTENDS Integers, Sequences, FiniteSets, TLC

\* ------------------------------------------------------------------ bounds

\* How many of the twenty number inputs a user moves away from their default
\* value before a run.
MaxEdits == 1

\* ----------------------------------------------------------- number scales

Milli == 1000

ProbOne == 10000000

\* get_risk_level: the literals 0.3 and 0.7, in units of 1e-7.
LowThreshold == 3000000

HighThreshold == 7000000

\* --------------------------------------------------------------- the form

\* The twenty st.number_input widgets of show_risk_assessment, in the order
\* they are created: the local variable, min_value, max_value and value
\* (the default), in thousandths.
W(n, lo, hi, v) == [name |-> n, min_value |-> lo, max_value |-> hi, value |-> v]

Widgets ==
    << W("radius_mean", 0, 50000, 14000),
       W("texture_mean", 0, 50000, 19000),
       W("perimeter_mean", 0, 200000, 92000),
       W("area_mean", 0, 2500000, 655000),
       W("smoothness_mean", 0, 1000, 96),
       W("compactness_mean", 0, 1000, 104),
       W("concavity_mean", 0, 1000, 89),
       W("concave_points_mean", 0, 1000, 48),
       W("symmetry_mean", 0, 1000, 181),
       W("fractal_dimension_mean", 0, 1000, 63),
       W("radius_worst", 0, 50000, 16000),
       W("texture_worst", 0, 50000, 25000),
       W("perimeter_worst", 0, 300000, 107000),
       W("area_worst", 0, 4000000, 880000),
       W("smoothness_worst", 0, 1000, 132),
       W("compactness_worst", 0, 1000, 254),
       W("concavity_worst", 0, 1000, 273),
       W("concave_points_worst", 0, 1000, 114),
       W("symmetry_worst", 0, 1000, 290),
       W("fractal_dimension_worst", 0, 1000, 84) >>

FieldNames == { Widgets[i].name : i \in 1..Len(Widgets) }

WidgetOf(f) == CHOOSE w \in { Widgets[i] : i \in 1..Len(Widgets) } : w.name = f

\* The values a user may leave in a widget: number_input clamps to
\* [min_value, max_value]; the model tries both ends and the default.
FieldValues(f) == { WidgetOf(f).min_value, WidgetOf(f).value, WidgetOf(f).max_value }

DefaultForm == [ f \in FieldNames |-> WidgetOf(f).value ]

\* input_data = [radius_mean, texture_mean, ...]: the list literal, as a
\* sequence of the local variables it names.
InputOrder ==
    << "radius_mean", "texture_mean", "perimeter_mean", "area_mean", "smoothness_mean",
       "compactness_mean", "concavity_mean", "concave_points_mean", "symmetry_mean",
       "fractal_dimension_mean",
       "radius_worst", "texture_worst", "perimeter_worst", "area_worst", "smoothness_worst",
       "compactness_worst", "concavity_worst", "concave_points_worst", "symmetry_worst",
       "fractal_dimension_worst" >>

\* Fault variant: two names of the list literal exchanged (the two concave
\* points inputs).
CollectInputSwapped(widgetValues) ==
    [ i \in 1..Len(InputOrder) |->
        widgetValues[InputOrder[IF i = 8 THEN 18 ELSE IF i = 18 THEN 8 ELSE i]] ]

CollectInput(widgetValues) == [ i \in 1..Len(InputOrder) |-> widgetValues[InputOrder[i]] ]

Pages == { "Home", "Risk Assessment", "Recommendations", "About Breast Cancer" }

\* ------------------------------------------- the pickled scaler and model

\* (d / scale) in thousandths, rounded down: d * Milli \div scale, computed
\* by quotient and remainder so that the product stays within 32 bits.
Ratio(d, scale) == (d \div scale) * Milli + ((d % scale) * Milli) \div scale

\* scaler.transform on one row.  A row whose length is not the fitted
\* feature count makes the library raise ValueError from inside transform.
Transform(sc, x) ==
    IF Len(x) # Len(sc.mean_)
    THEN [ok |-> FALSE, row |-> << >>]
    ELSE [ok |-> TRUE,
          row |-> [ i \in 1..Len(x) |-> Ratio(x[i] - sc.mean_[i], sc.scale_[i]) ]]

RECURSIVE Dot(_, _, _)
Dot(coef, z, n) == IF n = 0 THEN 0 ELSE coef[n] * z[n] + Dot(coef, z, n - 1)

Clip(v) == IF v < 0 THEN 0 ELSE IF v > ProbOne THEN ProbOne ELSE v

DecisionFunction(clf, z) == clf.intercept_ + Dot(clf.coef_, z, Len(z))

\* model.predict_proba on one row: one slot per entry of classes_, the
\* second slot rising with the decision function.
PredictProba(clf, z) ==
    LET p2 == Clip(ProbOne \div 2 + DecisionFunction(clf, z))
    IN  << ProbOne - p2, p2 >>

\* model.predict on one row: the class of the larger slot, the first on a tie.
Predict(clf, z) ==
    LET pp == PredictProba(clf, z)
    IN  IF pp[2] > pp[1] THEN clf.classes_[2] ELSE clf.classes_[1]


\* ------------------------------------------------ the files' contents

\* The feature order the artifact records: the ten measurements as means,
\* then the same ten as worst values.
Measurements ==
    << "radius", "texture", "perimeter", "area", "smoothness", "compactness",
       "concavity", "concave_points", "symmetry", "fractal_dimension" >>

FeatureOrder ==
    [ i \in 1..20 |->
        Measurements[((i - 1) % 10) + 1] \o "_" \o (IF i <= 10 THEN "mean" ELSE "worst") ]

\* A fitted scaler: the training means are the form's defaults, the scales
\* the training standard deviations (thousandths).
FittedMean == [ i \in 1..20 |-> Widgets[i].value ]

FittedScale ==
    << 3500, 6200, 24300, 352000, 14, 53, 80, 39, 27, 7,
       4800, 6250, 33600, 569000, 23, 157, 209, 66, 62, 18 >>

\* A fitted linear classifier: the change of the second slot's probability
\* (units of 1e-7) per thousandth of a scaled feature.
FittedCoef ==
    << 300, 500, 200, 200, 50, 0, 250, 300, 50, -50,
       400, 375, 300, 300, 100, 50, 200, 350, 100, 50 >>

FittedIntercept == 0 - 500000

Negated(seq) == [ i \in 1..Len(seq) |-> 0 - seq[i] ]

Padded(seq, v) == Append(seq, v)

\* An artifact over the first n of the features (a 21st is radius_se), with
\* the classifier's classes_ in the given order.  With malignant in the
\* first slot the same fit has the opposite sign.
Artifact(n, classes) ==
    LET first(seq, extra) == IF n <= 20 THEN SubSeq(seq, 1, n) ELSE Padded(seq, extra)
        sign(seq) == IF classes[2] = "malignant" THEN seq ELSE Negated(seq)
    IN  [ model |-> [ classes_ |-> classes,
                      coef_ |-> sign(first(FittedCoef, 100)),
                      intercept_ |-> IF classes[2] = "malignant"
                                     THEN FittedIntercept ELSE 0 - FittedIntercept ],
          scaler |-> [ mean_ |-> first(FittedMean, 400), scale_ |-> first(FittedScale, 270) ],
          feature_names |-> first(FeatureOrder, "radius_se"),
          model_name |-> "Logistic Regression",
          accuracy |-> 965 ]

StdArtifact == Artifact(20, << "benign", "malignant" >>)

RevArtifact == Artifact(20, << "malignant", "benign" >>)

ShortArtifact == Artifact(19, << "benign", "malignant" >>)

LongArtifact == Artifact(21, << "benign", "malignant" >>)

\* A pickle that lacks the 'accuracy' key.
PartialArtifact ==
    [ k \in { "model", "scaler", "feature_names", "model_name" } |-> StdArtifact[k] ]

\* normal_ranges.pkl: feature name -> {q25, q75}.  radius_mean as in the
\* reference population (11.7, 15.78), the others two thirds of a standard
\* deviation around the mean.
RangesFull ==
    [ f \in { FeatureOrder[i] : i \in 1..20 } |->
        LET i == CHOOSE k \in 1..20 : FeatureOrder[k] = f
        IN  IF f = "radius_mean"
            THEN [ q25 |-> 11700, q75 |-> 15780 ]
            ELSE [ q25 |-> FittedMean[i] - (2 * FittedScale[i]) \div 3,
                   q75 |-> FittedMean[i] + (2 * FittedScale[i]) \div 3 ] ]

\* A table that knows the mean features only.
RangesMeanOnly == [ f \in { FeatureOrder[i] : i \in 1..10 } |-> RangesFull[f] ]

\* ------------------------------------------------------- helper functions

\* Fault variant: the quartiles themselves count as out of range.
check_normal_range_exclusive(feature, value, table) ==
    IF feature \in DOMAIN table
    THEN table[feature].q25 < value /\ value < table[feature].q75
    ELSE TRUE

\* Fault variant: a feature the table lacks counts as out of range.
check_normal_range_strict(feature, value, table) ==
    IF feature \in DOMAIN table
    THEN table[feature].q25 <= value /\ value <= table[feature].q75
    ELSE FALSE

\* def check_normal_range(feature, value, normal_ranges)
check_normal_range(feature, value, table) ==
    IF feature \in DOMAIN table
    THEN LET q25 == table[feature].q25
             q75 == table[feature].q75
         IN  q25 <= value /\ value <= q75
    ELSE TRUE

\* Fault variant: the thresholds compared with <=.
get_risk_level_inclusive(p) ==
    IF p <= LowThreshold THEN << "Low Risk", "green" >>
    ELSE IF p <= HighThreshold THEN << "Moderate Risk", "yellow" >>
    ELSE << "High Risk", "red" >>

\* def get_risk_level(probability): the pair (level, icon); the three icons
\* (green, yellow and red circles) are named by their colour.
get_risk_level(p) ==
    IF p < LowThreshold THEN << "Low Risk", "green" >>
    ELSE IF p < HighThreshold THEN << "Moderate Risk", "yellow" >>
    ELSE << "High Risk", "red" >>

\* f"{probability:.1%}": tenths of a percent, rounded half to even.
FormatPercent1(p) ==
    LET q == p \div 10000
        r == p % 10000
    IN  IF r > 5000 \/ (r = 5000 /\ q % 2 = 1) THEN q + 1 ELSE q

\* create_gauge_chart: the indicator's value, probability * 100 (units 1e-5 percent).
create_gauge_chart(p) == [ kind |-> "gauge", value |-> p * 100, reference |-> 50 ]

\* ------------------------------------------------------------------ state

\* Browser sessions; each runs the script in its own namespace.
Sessions == { "s1", "s2" }

VARIABLES
    disk,           \* the two pickle files: << >> unreadable, << content >> readable
    cache,          \* st.cache_data's entry for load_model_and_data: << >> or << result >>
    io,             \* the files the last step opened
    lastCall,       \* the last direct call of a helper function, << >> if the last step was none
    remembered,     \* an earlier analysis request and its result, << >> if none is kept
    load_failed,    \* a load has raised in this process
    pc,             \* where each session's script run stands, "idle" between runs
    page,           \* the sidebar selectbox
    widget_state,   \* the twenty number inputs
    clicked,        \* st.button's value in the current run
    error,          \* the exception that ended the run, "" if none
    model_data, normal_ranges, model, scaler, feature_names, model_name, accuracy,
    input_data, input_scaled, prediction, probability, risk_level, risk_icon,
    calls,          \* the calls made on scaler, model and get_risk_level in this run
    out             \* the elements rendered in this run

env == << disk, cache >>

ghosts == << remembered, load_failed >>

ui == << page, widget_state, clicked >>

globals == << model_data, normal_ranges, model, scaler, feature_names, model_name, accuracy >>

locals == << input_data, input_scaled, prediction, probability, risk_level, risk_icon >>

vars == << disk, cache, io, lastCall, remembered, load_failed, pc, page, widget_state,
           clicked, error, model_data, normal_ranges, model, scaler, feature_names,
           model_name, accuracy, input_data, input_scaled, prediction, probability,
           risk_level, risk_icon, calls, out >>

ModelFile == "breast_cancer_model.pkl"

RangesFile == "normal_ranges.pkl"

Disk(m, r) == [ model |-> m, ranges |-> r ]

Element(k) == [ kind |-> k ]

Rendered(s, k) == \E i \in 1..Len(out[s]) : out[s][i].kind = k

Edits(w) == Cardinality({ f \in FieldNames : w[f] # DefaultForm[f] })

\* The state before any script run, with the given files on disk.
InitWith(disks) ==
    /\ disk \in disks
    /\ cache = << >>
    /\ io = {}
    /\ lastCall = << >>
    /\ remembered = << >>
    /\ load_failed = FALSE
    /\ pc = [ s \in Sessions |-> "idle" ]
    /\ page = [ s \in Sessions |-> "Home" ]
    /\ widget_state = [ s \in Sessions |-> DefaultForm ]
    /\ clicked = [ s \in Sessions |-> FALSE ]
    /\ error = [ s \in Sessions |-> "" ]
    /\ model_data = [ s \in Sessions |-> << >> ]
    /\ normal_ranges = [ s \in Sessions |-> << >> ]
    /\ model = [ s \in Sessions |-> << >> ]
    /\ scaler = [ s \in Sessions |-> << >> ]
    /\ feature_names = [ s \in Sessions |-> << >> ]
    /\ model_name = [ s \in Sessions |-> << >> ]
    /\ accuracy = [ s \in Sessions |-> << >> ]
    /\ input_data = [ s \in Sessions |-> << >> ]
    /\ input_scaled = [ s \in Sessions |-> << >> ]
    /\ prediction = [ s \in Sessions |-> << >> ]
    /\ probability = [ s \in Sessions |-> << >> ]
    /\ risk_level = [ s \in Sessions |-> "" ]
    /\ risk_icon = [ s \in Sessions |-> "" ]
    /\ calls = [ s \in Sessions |-> << >> ]
    /\ out = [ s \in Sessions |-> << >> ]

\* ------------------------------------------------------- starting a run

\* The script starts over in a fresh namespace: st.set_page_config and the
\* style block are the first things it renders.
BeginRun(s) ==
    /\ pc' = [ pc EXCEPT ![s] = "load" ]
    /\ error' = [ error EXCEPT ![s] = "" ]
    /\ model_data' = [ model_data EXCEPT ![s] = << >> ]
    /\ normal_ranges' = [ normal_ranges EXCEPT ![s] = << >> ]
    /\ model' = [ model EXCEPT ![s] = << >> ]
    /\ scaler' = [ scaler EXCEPT ![s] = << >> ]
    /\ feature_names' = [ feature_names EXCEPT ![s] = << >> ]
    /\ model_name' = [ model_name EXCEPT ![s] = << >> ]
    /\ accuracy' = [ accuracy EXCEPT ![s] = << >> ]
    /\ input_data' = [ input_data EXCEPT ![s] = << >> ]
    /\ input_scaled' = [ input_scaled EXCEPT ![s] = << >> ]
    /\ prediction' = [ prediction EXCEPT ![s] = << >> ]
    /\ probability' = [ probability EXCEPT ![s] = << >> ]
    /\ risk_level' = [ risk_level EXCEPT ![s] = "" ]
    /\ risk_icon' = [ risk_icon EXCEPT ![s] = "" ]
    /\ calls' = [ calls EXCEPT ![s] = << >> ]
    /\ out' = [ out EXCEPT ![s] = << Element("style") >> ]
    /\ io' = {}
    /\ lastCall' = << >>
    /\ UNCHANGED << env, ghosts >>

\* A browser opens or reloads the app: every widget is at its default.
OpenPage(s) ==
    /\ pc[s] = "idle"
    /\ page' = [ page EXCEPT ![s] = "Home" ]
    /\ widget_state' = [ widget_state EXCEPT ![s] = DefaultForm ]
    /\ clicked' = [ clicked EXCEPT ![s] = FALSE ]
    /\ BeginRun(s)

\* The sidebar selectbox changes; the number inputs of a page that is left
\* are not kept.
SelectPage(s, p) ==
    /\ pc[s] = "idle"
    /\ Rendered(s, "sidebar")
    /\ p # page[s]
    /\ page' = [ page EXCEPT ![s] = p ]
    /\ widget_state' = [ widget_state EXCEPT ![s] = DefaultForm ]
    /\ clicked' = [ clicked EXCEPT ![s] = FALSE ]
    /\ BeginRun(s)

\* One number input changes.
SetField(s, f, v) ==
    /\ pc[s] = "idle"
    /\ Rendered(s, "form")
    /\ v \in FieldValues(f)
    /\ v # widget_state[s][f]
    /\ Edits([ widget_state[s] EXCEPT ![f] = v ]) <= MaxEdits
    /\ widget_state' = [ widget_state EXCEPT ![s][f] = v ]
    /\ clicked' = [ clicked EXCEPT ![s] = FALSE ]
    /\ BeginRun(s)
    /\ UNCHANGED page

\* The "Analyze Risk" button is clicked: st.button is True in the run it starts.
ClickAnalyze(s) ==
    /\ pc[s] = "idle"
    /\ Rendered(s, "form")
    /\ clicked' = [ clicked EXCEPT ![s] = TRUE ]
    /\ BeginRun(s)
    /\ UNCHANGED << page, widget_state >>

\* ------------------------------------------------------ loading (module level)

\* Fault variant: the exception is caught and the script goes on to main().
RaiseAndContinue(s, e) ==
    /\ pc' = [ pc EXCEPT ![s] = "main" ]
    /\ error' = [ error EXCEPT ![s] = e ]

\* An exception nothing catches ends the script run.
Raise(s, e) ==
    /\ pc' = [ pc EXCEPT ![s] = "idle" ]
    /\ error' = [ error EXCEPT ![s] = e ]

\* Fault variant: the memoized result is never found.
CacheLookupMiss(c) == << >>

\* @st.cache_data: the memoized result of an earlier call, if there is one.
CacheLookup(c) == c

\* model_data, normal_ranges = load_model_and_data()
\* A memoized result is returned without running the body; otherwise the body
\* opens and unpickles the model file, then the ranges file, and its result is
\* memoized.  An unreadable file raises and nothing is memoized.
load_model_and_data(s) ==
    /\ pc[s] = "load"
    /\ lastCall' = << >>
    /\ LET hit == CacheLookup(cache)
       IN  IF hit # << >>
           THEN /\ io' = {}
                /\ model_data' = [ model_data EXCEPT ![s] = << hit[1].model_data >> ]
                /\ normal_ranges' = [ normal_ranges EXCEPT ![s] = << hit[1].normal_ranges >> ]
                /\ pc' = [ pc EXCEPT ![s] = "unpack" ]
                /\ UNCHANGED << cache, error, load_failed >>
           ELSE IF disk.model = << >>
           THEN /\ io' = { ModelFile }
                /\ Raise(s, "FileNotFoundError")
                /\ load_failed' = TRUE
                /\ UNCHANGED << cache, model_data, normal_ranges >>
           ELSE IF disk.ranges = << >>
           THEN /\ io' = { ModelFile, RangesFile }
                /\ Raise(s, "FileNotFoundError")
                /\ load_failed' = TRUE
                /\ UNCHANGED << cache, model_data, normal_ranges >>
           ELSE /\ io' = { ModelFile, RangesFile }
                /\ cache' = << [ model_data |-> disk.model[1],
                                 normal_ranges |-> disk.ranges[1] ] >>
                /\ model_data' = [ model_data EXCEPT ![s] = disk.model ]
                /\ normal_ranges' = [ normal_ranges EXCEPT ![s] = disk.ranges ]
                /\ pc' = [ pc EXCEPT ![s] = "unpack" ]
                /\ UNCHANGED << error, load_failed >>
    /\ UNCHANGED << disk, remembered, ui, model, scaler, feature_names, model_name,
                    accuracy, locals, calls, out >>

\* The keys the module reads from model_data, in the order it reads them.
ArtifactKeys == << "model", "scaler", "feature_names", "model_name", "accuracy" >>

\* model = model_data['model'] ... accuracy = model_data['accuracy']
\* The first key that is missing raises KeyError; the globals before it are set.
ModuleGlobals(s) ==
    /\ pc[s] = "unpack"
    /\ LET md == model_data[s][1]
           got(k) == \A j \in 1..k : ArtifactKeys[j] \in DOMAIN md
           val(k) == IF got(k) THEN << md[ArtifactKeys[k]] >> ELSE << >>
       IN  /\ model' = [ model EXCEPT ![s] = val(1) ]
           /\ scaler' = [ scaler EXCEPT ![s] = val(2) ]
           /\ feature_names' = [ feature_names EXCEPT ![s] = val(3) ]
           /\ model_name' = [ model_name EXCEPT ![s] = val(4) ]
           /\ accuracy' = [ accuracy EXCEPT ![s] = val(5) ]
           /\ IF got(5)
              THEN pc' = [ pc EXCEPT ![s] = "main" ] /\ UNCHANGED << error, load_failed >>
              ELSE Raise(s, "KeyError") /\ load_failed' = TRUE
    /\ io' = {}
    /\ lastCall' = << >>
    /\ UNCHANGED << env, remembered, ui, model_data, normal_ranges, locals, calls, out >>

\* ------------------------------------------------------------------ main()

\* The static pages' content.
PageElement(p) ==
    CASE p = "Home" -> Element("home")
      [] p = "Recommendations" -> Element("recommendations")
      [] p = "About Breast Cancer" -> Element("about")

\* def main(): header, sidebar, and the selected page's function.  The three
\* static pages render and the run ends; the risk assessment page goes on.
main(s) ==
    /\ pc[s] = "main"
    /\ IF page[s] = "Risk Assessment"
       THEN /\ out' = [ out EXCEPT ![s] = @ \o << Element("header"), Element("sidebar") >> ]
            /\ pc' = [ pc EXCEPT ![s] = "form" ]
       ELSE /\ out' = [ out EXCEPT ![s] =
                          @ \o << Element("header"), Element("sidebar"), PageElement(page[s]) >> ]
            /\ pc' = [ pc EXCEPT ![s] = "idle" ]
    /\ io' = {}
    /\ lastCall' = << >>
    /\ UNCHANGED << env, ghosts, ui, error, globals, locals, calls >>

\* show_risk_assessment, up to the button: the twenty number inputs are
\* rendered and read, input_data is collected.  Without a click the page's
\* closing notes are rendered and the run ends.
show_risk_assessment(s) ==
    /\ pc[s] = "form"
    /\ input_data' = [ input_data EXCEPT ![s] = CollectInput(widget_state[s]) ]
    /\ IF clicked[s]
       THEN /\ out' = [ out EXCEPT ![s] = Append(@, Element("form")) ]
            /\ pc' = [ pc EXCEPT ![s] = "scale" ]
       ELSE /\ out' = [ out EXCEPT ![s] = @ \o << Element("form"), Element("notes") >> ]
            /\ pc' = [ pc EXCEPT ![s] = "idle" ]
    /\ io' = {}
    /\ lastCall' = << >>
    /\ UNCHANGED << env, ghosts, ui, error, globals, input_scaled, prediction,
                    probability, risk_level, risk_icon, calls >>

\* -------------------------------------------------- the analysis request

\* The slot of predict_proba's row the code reads: [0][1], the second.
ProbaSlot == 2

\* The literal 0.3 that picks the result card.
CardThreshold == 3000000

\* The global `scaler` of this run.
FittedScaler(s) == scaler[s][1]

\* Fault variant: the classifier is unpickled from the file again at scoring.
ModelFromDisk(s) == disk.model[1].model

\* The global `model` of this run.
FittedModel(s) == model[s][1]

\* Fault variant: fit_transform, which refits the scaler on the request's row.
AfterFitTransform(sc, x) == [ mean_ |-> x, scale_ |-> [ i \in 1..Len(x) |-> Milli ] ]

\* The scaler after transform(x): transform reads the fitted statistics and
\* leaves them as they are.
AfterTransform(sc, x) == sc

Called(s, f, a) == calls' = [ calls EXCEPT ![s] = Append(@, [ fn |-> f, arg |-> a ]) ]

\* Fault variant: input_scaled kept in one buffer that every session's run shares.
ScaleShared(s) ==
    /\ pc[s] = "scale"
    /\ LET sc == FittedScaler(s)
           r == Transform(sc, input_data[s])
       IN  /\ Called(s, "scaler.transform", input_data[s])
           /\ scaler' = [ scaler EXCEPT ![s] = << AfterTransform(sc, input_data[s]) >> ]
           /\ IF r.ok
              THEN /\ input_scaled' = [ t \in Sessions |-> r.row ]
                   /\ pc' = [ pc EXCEPT ![s] = "predict" ]
                   /\ UNCHANGED error
              ELSE /\ Raise(s, "ValueError")
                   /\ UNCHANGED input_scaled
    /\ io' = {}
    /\ lastCall' = << >>
    /\ UNCHANGED << env, ghosts, ui, model_data, normal_ranges, model, feature_names,
                    model_name, accuracy, input_data, prediction, probability,
                    risk_level, risk_icon, out >>

\* input_scaled = scaler.transform([input_data])
Scale(s) ==
    /\ pc[s] = "scale"
    /\ LET sc == FittedScaler(s)
           r == Transform(sc, input_data[s])
       IN  /\ Called(s, "scaler.transform", input_data[s])
           /\ scaler' = [ scaler EXCEPT ![s] = << AfterTransform(sc, input_data[s]) >> ]
           /\ IF r.ok
              THEN /\ input_scaled' = [ input_scaled EXCEPT ![s] = r.row ]
                   /\ pc' = [ pc EXCEPT ![s] = "predict" ]
                   /\ UNCHANGED error
              ELSE /\ Raise(s, "ValueError")
                   /\ UNCHANGED input_scaled
    /\ io' = {}
    /\ lastCall' = << >>
    /\ UNCHANGED << env, ghosts, ui, model_data, normal_ranges, model, feature_names,
                    model_name, accuracy, input_data, prediction, probability,
                    risk_level, risk_icon, out >>

\* Fault variant: the classifier is given the raw input_data.
PredictStepRaw(s) ==
    /\ pc[s] = "predict"
    /\ Called(s, "model.predict", input_data[s])
    /\ prediction' = [ prediction EXCEPT ![s] = << Predict(FittedModel(s), input_data[s]) >> ]
    /\ pc' = [ pc EXCEPT ![s] = "predict_proba" ]
    /\ io' = {}
    /\ lastCall' = << >>
    /\ UNCHANGED << env, ghosts, ui, error, globals, input_data, input_scaled,
                    probability, risk_level, risk_icon, out >>

\* prediction = model.predict(input_scaled)[0]
PredictStep(s) ==
    /\ pc[s] = "predict"
    /\ Called(s, "model.predict", input_scaled[s])
    /\ prediction' = [ prediction EXCEPT ![s] = << Predict(FittedModel(s), input_scaled[s]) >> ]
    /\ pc' = [ pc EXCEPT ![s] = "predict_proba" ]
    /\ io' = {}
    /\ lastCall' = << >>
    /\ UNCHANGED << env, ghosts, ui, error, globals, input_data, input_scaled,
                    probability, risk_level, risk_icon, out >>

\* probability = model.predict_proba(input_scaled)[0][1]
PredictProbaStep(s) ==
    /\ pc[s] = "predict_proba"
    /\ Called(s, "model.predict_proba", input_scaled[s])
    /\ probability' = [ probability EXCEPT ![s] =
                          << PredictProba(FittedModel(s), input_scaled[s])[ProbaSlot] >> ]
    /\ pc' = [ pc EXCEPT ![s] = "categorize" ]
    /\ io' = {}
    /\ lastCall' = << >>
    /\ UNCHANGED << env, ghosts, ui, error, globals, input_data, input_scaled,
                    prediction, risk_level, risk_icon, out >>

\* The results header, then risk_level, risk_icon = get_risk_level(probability)
Categorize(s) ==
    /\ pc[s] = "categorize"
    /\ Called(s, "get_risk_level", probability[s])
    /\ LET r == get_risk_level(probability[s][1])
       IN  /\ risk_level' = [ risk_level EXCEPT ![s] = r[1] ]
           /\ risk_icon' = [ risk_icon EXCEPT ![s] = r[2] ]
    /\ out' = [ out EXCEPT ![s] = Append(@, Element("results-header")) ]
    /\ pc' = [ pc EXCEPT ![s] = "card" ]
    /\ io' = {}
    /\ lastCall' = << >>
    /\ UNCHANGED << env, ghosts, ui, error, globals, input_data, input_scaled,
                    prediction, probability >>

\* Fault variant: the card's threshold compared with <=.
CardInclusive(p, level, icon) ==
    IF p <= CardThreshold
    THEN [ kind |-> "risk-low", icon |-> icon, level |-> level, percent |-> FormatPercent1(p),
           message |-> "The analysis suggests a low probability of malignancy." ]
    ELSE [ kind |-> "risk-high", icon |-> icon, level |-> level, percent |-> FormatPercent1(p),
           message |-> "The analysis suggests elevated risk. Please consult a healthcare professional." ]

\* The result card: risk-low below 0.3, risk-high otherwise; the heading is
\* the icon and level, the second line the probability as a percentage.
Card(p, level, icon) ==
    IF p < CardThreshold
    THEN [ kind |-> "risk-low", icon |-> icon, level |-> level, percent |-> FormatPercent1(p),
           message |-> "The analysis suggests a low probability of malignancy." ]
    ELSE [ kind |-> "risk-high", icon |-> icon, level |-> level, percent |-> FormatPercent1(p),
           message |-> "The analysis suggests elevated risk. Please consult a healthcare professional." ]

RenderCard(s) ==
    /\ pc[s] = "card"
    /\ out' = [ out EXCEPT ![s] = Append(@, Card(probability[s][1], risk_level[s], risk_icon[s])) ]
    /\ pc' = [ pc EXCEPT ![s] = "gauge" ]
    /\ io' = {}
    /\ lastCall' = << >>
    /\ UNCHANGED << env, ghosts, ui, error, globals, locals, calls >>

\* What an analysis request was given and what it produced.
RequestOf(s) ==
    [ artifact |-> model_data[s][1],
      vector |-> input_data[s],
      result |-> [ predicted_class |-> prediction[s][1],
                   probability_malignant |-> probability[s][1],
                   risk_level |-> risk_level[s],
                   risk_icon |-> risk_icon[s] ] ]

\* The gauge chart and the page's closing notes; the run ends.  With keep,
\* and none kept yet, the request is remembered for later comparison.
Finish(s, keep) ==
    /\ pc[s] = "gauge"
    /\ out' = [ out EXCEPT ![s] =
                  @ \o << create_gauge_chart(probability[s][1]), Element("notes") >> ]
    /\ pc' = [ pc EXCEPT ![s] = "idle" ]
    /\ remembered' = IF keep /\ remembered = << >> THEN << RequestOf(s) >> ELSE remembered
    /\ io' = {}
    /\ lastCall' = << >>
    /\ UNCHANGED << env, load_failed, ui, error, globals, locals, calls >>

\* ------------------------------------------------------- the environment

\* The files on disk are replaced, removed or restored.
DiskChange(d) ==
    /\ d # disk
    /\ disk' = d
    /\ io' = {}
    /\ lastCall' = << >>
    /\ UNCHANGED << cache, ghosts, pc, ui, error, globals, locals, calls, out >>

\* The cache is cleared (the framework's "clear cache").
ClearCache ==
    /\ cache # << >>
    /\ cache' = << >>
    /\ io' = {}
    /\ lastCall' = << >>
    /\ UNCHANGED << disk, ghosts, pc, ui, error, globals, locals, calls, out >>

\* ------------------------------------------- direct calls of the helpers

CallCheckNormalRange(f, v, t) ==
    /\ lastCall' = << [ fn |-> "check_normal_range", feature |-> f, value |-> v, table |-> t,
                        returned |-> check_normal_range(f, v, t) ] >>
    /\ io' = {}
    /\ UNCHANGED << env, ghosts, pc, ui, error, globals, locals, calls, out >>

CallGetRiskLevel(p) ==
    /\ lastCall' = << [ fn |-> "get_risk_level", probability |-> p,
                        returned |-> get_risk_level(p) ] >>
    /\ io' = {}
    /\ UNCHANGED << env, ghosts, pc, ui, error, globals, locals, calls, out >>

\* ---------------------------------------------------------- specifications

\* The script run's steps after a run has started.
RunStep(s) ==
    \/ load_model_and_data(s)
    \/ ModuleGlobals(s)
    \/ main(s)
    \/ show_risk_assessment(s)
    \/ Scale(s)
    \/ PredictStep(s)
    \/ PredictProbaStep(s)
    \/ Categorize(s)
    \/ RenderCard(s)

\* The one browser session of the single-user specifications.
User == "s1"

\* Spec: one user on the risk assessment form, over each artifact the model
\* file may hold; the files stay as they are.
ScoringArtifacts == { StdArtifact, RevArtifact, ShortArtifact, LongArtifact }

ScoringDisks == { Disk(<< a >>, << RangesFull >>) : a \in ScoringArtifacts }

Init == InitWith(ScoringDisks)

Next ==
    \/ OpenPage(User)
    \/ \E p \in Pages : SelectPage(User, p)
    \/ \E f \in FieldNames : \E v \in FieldValues(f) : SetField(User, f, v)
    \/ ClickAnalyze(User)
    \/ RunStep(User)
    \/ Finish(User, FALSE)

Spec == Init /\ [][Next]_vars

\* LifeSpec: the process lifetime.  The files may be unreadable, incomplete,
\* replaced or restored at any time, the cache may be cleared, and the helper
\* check_normal_range may be called on the loaded table between runs.
LifeDisks ==
    { Disk(m, r) : m \in { << >>, << StdArtifact >>, << RevArtifact >>, << PartialArtifact >> },
                   r \in { << >>, << RangesFull >> } }

LifeProbes == { "radius_mean", "radius_se" } \X { 9000, 13000 }

LifeInit == InitWith(LifeDisks)

LifeNext ==
    \/ OpenPage(User)
    \/ \E p \in Pages : SelectPage(User, p)
    \/ ClickAnalyze(User)
    \/ RunStep(User)
    \/ Finish(User, FALSE)
    \/ \E d \in LifeDisks : DiskChange(d)
    \/ ClearCache
    \/ \E c \in LifeProbes :
          /\ pc[User] = "idle"
          /\ normal_ranges[User] # << >>
          /\ CallCheckNormalRange(c[1], c[2], normal_ranges[User][1])

LifeSpec == LifeInit /\ [][LifeNext]_vars

\* DetSpec: repeated analysis requests.  Two of the inputs are edited, the
\* model file may be replaced and the cache cleared between requests, and one
\* earlier request is remembered.
DetFields == { "texture_mean", "texture_worst" }

DetDisks == { Disk(<< a >>, << RangesFull >>) : a \in { StdArtifact, RevArtifact } }

DetInit == InitWith(DetDisks)

DetNext ==
    \/ OpenPage(User)
    \/ \E p \in Pages : SelectPage(User, p)
    \/ \E f \in DetFields : \E v \in FieldValues(f) : SetField(User, f, v)
    \/ ClickAnalyze(User)
    \/ RunStep(User)
    \/ \E keep \in BOOLEAN : Finish(User, keep)
    \/ \E d \in DetDisks : DiskChange(d)
    \/ ClearCache

DetSpec == DetInit /\ [][DetNext]_vars

\* ConcSpec: two browser sessions of the one server process.  Each session's
\* script run has its own namespace; the cache entry is the only thing they
\* share.  The runs' steps interleave freely; two of the inputs are edited.
ConcInit == InitWith(DetDisks)

ConcNext ==
    \E s \in Sessions :
        \/ OpenPage(s)
        \/ \E p \in Pages : SelectPage(s, p)
        \/ \E f \in DetFields : \E v \in FieldValues(f) : SetField(s, f, v)
        \/ ClickAnalyze(s)
        \/ RunStep(s)
        \/ Finish(s, FALSE)

ConcSpec == ConcInit /\ [][ConcNext]_vars

\* HelperSpec: the two helper functions called directly, on probabilities of
\* a grid with the thresholds' neighbours, and on features in and out of a
\* table with values around the quartiles.
GridSteps == 20

ProbGrid ==
    { (k * ProbOne) \div GridSteps : k \in 0..GridSteps }
      \cup { LowThreshold - 1, LowThreshold, LowThreshold + 1,
             HighThreshold - 1, HighThreshold, HighThreshold + 1, 1, ProbOne - 1 }

RangeTables == { RangesFull, RangesMeanOnly }

ProbeFeatures == FieldNames \cup { "radius_se", "unknown" }

ProbeValues(t, f) ==
    IF f \in DOMAIN t
    THEN { t[f].q25 - 1, t[f].q25, (t[f].q25 + t[f].q75) \div 2, t[f].q75, t[f].q75 + 1,
           9000, 13000 }
    ELSE { 0, 9000, 13000, 4000000 }

HelperInit == InitWith({ Disk(<< StdArtifact >>, << RangesFull >>) })

HelperNext ==
    \/ \E t \in RangeTables : \E f \in ProbeFeatures : \E v \in ProbeValues(t, f) :
          CallCheckNormalRange(f, v, t)
    \/ \E p \in ProbGrid : CallGetRiskLevel(p)

HelperSpec == HelperInit /\ [][HelperNext]_vars

\* ------------------------------------------------------------------ claims

\* The direct helper call the last step made, if it was a call of fn.
DirectCalls(fn) == { i \in 1..Len(lastCall) : lastCall[i].fn = fn }

Tenth == ProbOne \div 10

\* C1: for every probability in [0,1] get_risk_level returns exactly one of the
\* three levels, Low Risk iff p < 0.30, Moderate Risk iff 0.30 <= p < 0.70,
\* High Risk iff p >= 0.70 (so 0.30 is Moderate, 0.70 is High, 0.2999999 is
\* Low), and the icon is the one paired with the level.
C1_RiskLevelByThreshold ==
    \A i \in DirectCalls("get_risk_level") :
        LET p == lastCall[i].probability
            level == lastCall[i].returned[1]
            icon == lastCall[i].returned[2]
        IN  /\ level \in { "Low Risk", "Moderate Risk", "High Risk" }
            /\ (level = "Low Risk") <=> (p < 3 * Tenth)
            /\ (level = "Moderate Risk") <=> (3 * Tenth <= p /\ p < 7 * Tenth)
            /\ (level = "High Risk") <=> (p >= 7 * Tenth)
            /\ (p = 3 * Tenth - 1) => level = "Low Risk"
            /\ << level, icon >> \in { << "Low Risk", "green" >>,
                                       << "Moderate Risk", "yellow" >>,
                                       << "High Risk", "red" >> }

\* get_risk_level was called on exactly 0.30 and answered Moderate Risk.
C1_Witness ==
    \E i \in DirectCalls("get_risk_level") :
        lastCall[i].probability = 3 * Tenth /\ lastCall[i].returned[1] = "Moderate Risk"

\* The probability predict_proba attaches to the malignant label.
MalignantProbability(clf, z) ==
    LET k == CHOOSE j \in 1..Len(clf.classes_) : clf.classes_[j] = "malignant"
    IN  PredictProba(clf, z)[k]

\* C2: whatever the order of the classifier's two class slots, the probability
\* the scoring step obtains (and passes to get_risk_level) is the one attached
\* to the malignant label.
C2_ProbabilityIsMalignant ==
    \A s \in Sessions :
        probability[s] # << >> =>
            probability[s][1] = MalignantProbability(model[s][1], input_scaled[s])

\* C3: a feature vector whose length differs from the artifact's declared
\* feature count never reaches scaler.transform.
C3_WrongLengthNeverScaled ==
    \A s \in Sessions : \A i \in 1..Len(calls[s]) :
        calls[s][i].fn = "scaler.transform" =>
            Len(calls[s][i].arg) = Len(feature_names[s][1])

\* C4: the vector handed to the scaler has exactly 20 elements and position i
\* holds the value of the form field of the i-th feature name, the ten means
\* followed by the ten worst values in the same measurement order.
C4_PositionalBinding ==
    \A s \in Sessions : \A i \in 1..Len(calls[s]) :
        calls[s][i].fn = "scaler.transform" =>
            /\ Len(calls[s][i].arg) = 20
            /\ \A k \in 1..20 : calls[s][i].arg[k] = widget_state[s][FeatureOrder[k]]

\* The scaler was handed a vector in which a worst-value field (and no other)
\* had been moved away from its default.
C4_Witness ==
    \E i \in 1..Len(calls[User]) : \E k \in 11..20 :
        /\ calls[User][i].fn = "scaler.transform"
        /\ calls[User][i].arg[k] # DefaultForm[FeatureOrder[k]]
        /\ \A j \in 1..20 : j # k => calls[User][i].arg[j] = DefaultForm[FeatureOrder[j]]

\* C5: for a feature of the table, check_normal_range is true iff
\* q25 <= v <= q75, both ends included.
C5_InRangeIffBetweenQuartiles ==
    \A i \in DirectCalls("check_normal_range") :
        LET c == lastCall[i]
        IN  c.feature \in DOMAIN c.table =>
                LET q25 == c.table[c.feature].q25
                    q75 == c.table[c.feature].q75
                IN  /\ (c.value < q25 \/ c.value > q75) => c.returned = FALSE
                    /\ (c.value >= q25 /\ c.value <= q75) => c.returned = TRUE

\* check_normal_range was called on a lower quartile itself and answered true.
C5_Witness ==
    \E i \in DirectCalls("check_normal_range") :
        LET c == lastCall[i]
        IN  /\ c.feature \in DOMAIN c.table
            /\ c.value = c.table[c.feature].q25
            /\ c.returned = TRUE

\* C6: for a feature that is no key of the table, check_normal_range is true
\* for every value.
C6_UnknownFeatureIsNormal ==
    \A i \in DirectCalls("check_normal_range") :
        lastCall[i].feature \notin DOMAIN lastCall[i].table => lastCall[i].returned = TRUE

\* check_normal_range was called on a feature the table lacks, with a value
\* outside every range, and answered true.
C6_Witness ==
    \E i \in DirectCalls("check_normal_range") :
        /\ lastCall[i].feature \notin DOMAIN lastCall[i].table
        /\ lastCall[i].value = 4000000
        /\ lastCall[i].returned = TRUE

\* Something of the app was rendered in the session's current or last run:
\* more than the style block every run starts with.
Served(s) == \E i \in 1..Len(out[s]) : out[s][i].kind # "style"

LoadErrors == { "FileNotFoundError", "KeyError" }

FullyLoaded(s) ==
    /\ model_data[s] # << >> /\ normal_ranges[s] # << >>
    /\ model[s] # << >> /\ scaler[s] # << >> /\ feature_names[s] # << >>
    /\ model_name[s] # << >> /\ accuracy[s] # << >>

Complete(s) == risk_level[s] # ""

\* C9: an analysis request with the same vector and the same artifact as an
\* earlier one has the same result (class, malignant probability, level and
\* icon), whatever happened in between.
C9_SameInputSameResult ==
    \A s \in Sessions :
        ( /\ Complete(s)
          /\ remembered # << >>
          /\ remembered[1].vector = input_data[s]
          /\ remembered[1].artifact = model_data[s][1] )
        => RequestOf(s).result = remembered[1].result

\* A second request with the vector and artifact of the remembered one is
\* complete, the model file having been replaced in between.
C9_Witness ==
    /\ pc[User] = "gauge"
    /\ remembered # << >>
    /\ remembered[1].vector = input_data[User]
    /\ remembered[1].artifact = model_data[User][1]
    /\ disk.model # model_data[User]
    /\ Edits(widget_state[User]) > 0

\* C10: once set in a run, model_data, normal_ranges, model, scaler,
\* feature_names, model_name and accuracy keep their value through every step
\* of the run (scoring, categorizing, rendering, direct helper calls), and the
\* cached artifact is never changed, only filled and cleared.
C10_ArtifactReadOnly ==
    [][ /\ \A s \in Sessions :
              pc'[s] # "load" =>
                  /\ model_data[s] # << >> => model_data'[s] = model_data[s]
                  /\ normal_ranges[s] # << >> => normal_ranges'[s] = normal_ranges[s]
                  /\ model[s] # << >> => model'[s] = model[s]
                  /\ scaler[s] # << >> => scaler'[s] = scaler[s]
                  /\ feature_names[s] # << >> => feature_names'[s] = feature_names[s]
                  /\ model_name[s] # << >> => model_name'[s] = model_name[s]
                  /\ accuracy[s] # << >> => accuracy'[s] = accuracy[s]
        /\ (cache # << >> /\ cache' # << >>) => cache' = cache
      ]_vars

\* An analysis request has run to its end and the run's artifact is still the
\* cached one.
C10_Witness ==
    /\ pc[User] = "idle"
    /\ Complete(User)
    /\ cache # << >>
    /\ model_data[User] = << cache[1].model_data >>
    /\ scaler[User] = << cache[1].model_data.scaler >>
    /\ normal_ranges[User] = << cache[1].normal_ranges >>

\* The calls of one analysis request, in the order the script makes them.
CallOrder == << "scaler.transform", "model.predict", "model.predict_proba", "get_risk_level" >>

\* The level and icon the thresholds 0.30 and 0.70 fix for a probability.
LevelFor(p) ==
    CASE p < 3 * Tenth -> << "Low Risk", "green" >>
      [] p >= 3 * Tenth /\ p < 7 * Tenth -> << "Moderate Risk", "yellow" >>
      [] p >= 7 * Tenth -> << "High Risk", "red" >>

\* C12: within one analysis request the calls are made in the order scale,
\* predict, predict_proba, categorize; the classifier is given the scaler's
\* output for the request's vector and never the raw vector; the class label
\* and the probability come from that same scaled vector; and the risk level
\* is the one the thresholds fix for that probability alone.
C12_ScaleInferCategorize ==
    \A s \in Sessions :
        LET n == Len(calls[s])
        IN  /\ n <= Len(CallOrder)
            /\ \A i \in 1..n : calls[s][i].fn = CallOrder[i]
            /\ n >= 2 =>
                  LET scaled == Transform(scaler[s][1], calls[s][1].arg)
                  IN  /\ scaled.ok
                      /\ calls[s][2].arg = scaled.row
                      /\ calls[s][2].arg # calls[s][1].arg
                      /\ prediction[s] = << Predict(model[s][1], scaled.row) >>
            /\ n >= 3 =>
                  /\ calls[s][3].arg = calls[s][2].arg
                  /\ probability[s] = << PredictProba(model[s][1], calls[s][3].arg)[ProbaSlot] >>
            /\ n >= 4 =>
                  /\ calls[s][4].arg = probability[s]
                  /\ << risk_level[s], risk_icon[s] >> = LevelFor(probability[s][1])
            /\ Complete(s) => n = 4

\* A request is complete whose predicted class is the second class slot's
\* while its level is Moderate Risk: the level follows the probability.
C12_Witness ==
    /\ pc[User] = "gauge"
    /\ Len(calls[User]) = 4
    /\ prediction[User] = << model[User][1].classes_[2] >>
    /\ risk_level[User] = "Moderate Risk"
    /\ Edits(widget_state[User]) > 0

\* The result cards among the elements a session's run has rendered.
Cards(s) == { i \in 1..Len(out[s]) : out[s][i].kind \in { "risk-low", "risk-high" } }

\* The run has rendered its result card.
CardDue(s) == pc[s] = "gauge" \/ (pc[s] = "idle" /\ Complete(s))

\* C13: an analysis request renders exactly one result card (none before the
\* card step); its heading carries the level and icon the thresholds fix for
\* the request's probability; the low-risk card and message are rendered
\* exactly when the level is Low Risk, the elevated-risk card and message
\* exactly when it is Moderate Risk or High Risk.
C13_OneCardMatchingLevel ==
    \A s \in Sessions :
        /\ Cardinality(Cards(s)) = IF CardDue(s) THEN 1 ELSE 0
        /\ \A i \in Cards(s) :
              LET c == out[s][i]
              IN  /\ << c.level, c.icon >> = LevelFor(probability[s][1])
                  /\ (c.kind = "risk-low") <=> (c.level = "Low Risk")
                  /\ (c.kind = "risk-high") <=> (c.level \in { "Moderate Risk", "High Risk" })
                  /\ (c.kind = "risk-low") <=>
                        (c.message = "The analysis suggests a low probability of malignancy.")
                  /\ (c.kind = "risk-high") <=>
                        (c.message = "The analysis suggests elevated risk. Please consult a healthcare professional.")

\* A request whose probability is exactly 0.30 has rendered the elevated-risk
\* card under the Moderate Risk heading.
C13_Witness ==
    /\ pc[User] = "gauge"
    /\ probability[User] = << 3 * Tenth >>
    /\ \E i \in Cards(User) :
          out[User][i].kind = "risk-high" /\ out[User][i].level = "Moderate Risk"

\* The result of one request run alone: artifact a applied to vector x by
\* scaling, then inference, then categorization.
AloneScaled(a, x) == Transform(a.scaler, x).row

AloneProbability(a, x) == PredictProba(a.model, AloneScaled(a, x))[ProbaSlot]

AloneResult(a, x) ==
    [ predicted_class |-> Predict(a.model, AloneScaled(a, x)),
      probability_malignant |-> AloneProbability(a, x),
      risk_level |-> get_risk_level(AloneProbability(a, x))[1],
      risk_icon |-> get_risk_level(AloneProbability(a, x))[2] ]

\* The feature vector of the session's own form.
OwnVector(s) == CollectInput(widget_state[s])

\* C11: with two sessions' requests interleaved step by step, every scaling,
\* inference and categorization call of a request receives that request's own
\* vector, scaled vector and probability, and a completed request's result is
\* the result of running it alone on its own feature vector.
C11_IsolatedRequests ==
    \A s \in Sessions :
        LET n == Len(calls[s])
        IN  /\ n >= 1 =>
                  /\ input_data[s] = OwnVector(s)
                  /\ calls[s][1].arg = OwnVector(s)
            /\ n >= 2 =>
                  /\ input_scaled[s] = AloneScaled(model_data[s][1], OwnVector(s))
                  /\ calls[s][2].arg = input_scaled[s]
                  /\ prediction[s] = << AloneResult(model_data[s][1], OwnVector(s)).predicted_class >>
            /\ n >= 3 =>
                  /\ calls[s][3].arg = AloneScaled(model_data[s][1], OwnVector(s))
                  /\ probability[s] = << AloneProbability(model_data[s][1], OwnVector(s)) >>
            /\ n >= 4 => calls[s][4].arg = << AloneProbability(model_data[s][1], OwnVector(s)) >>
            /\ Complete(s) =>
                  RequestOf(s).result = AloneResult(model_data[s][1], OwnVector(s))

\* Two requests overlap: one is between its two classifier calls while the
\* other, on a different vector, has its result, and the two results differ.
C11_Witness ==
    /\ pc["s1"] = "predict_proba"
    /\ pc["s2"] = "gauge"
    /\ input_data["s1"] # input_data["s2"]
    /\ input_scaled["s1"] # input_scaled["s2"]
    /\ AloneResult(model_data["s1"][1], OwnVector("s1")).risk_level # risk_level["s2"]

=============================================================================
